---- MODULE Spec2Model ----
(***************************************************************************)
(* Model of the music_remote server: the MusicMonitor poller                *)
(* (server/music_monitor.py), the AppleScript adapter it reads through      *)
(* (server/applescript_commands.py) and the way server/server.py drives it. *)
(*                                                                          *)
(* Conventions                                                              *)
(*  - A Python dict is a TLA+ function over its string keys; {} is          *)
(*    EmptyDict.  dict.get(k) is dict_get(d, k, None).                      *)
(*  - Python's None is NoneStr in a text slot and NoneNum in a numeric      *)
(*    slot (TLC cannot compare a string with a number).  The None that      *)
(*    _detect_changes returns is EmptyDict: the loop only tests its         *)
(*    truthiness (music_monitor.py:54) and both are falsy.                  *)
(*  - A string that the code splits on "|" is the sequence of its           *)
(*    "|"-separated fields, so a string without "|" is a one-element        *)
(*    sequence and str.split("|") is the identity on this representation.   *)
(*  - Numbers travel through osascript as text: Str formats, IsFloat and    *)
(*    ToFloat parse.                                                        *)
(*  - Time is counted in ticks of half a second.                            *)
(***************************************************************************)
EXTENDS Integers, Sequences, FiniteSets, TLC

VARIABLES
    running,        \* MusicMonitor.running
    thread,         \* MusicMonitor.thread: 0 is None, else the id of a loop thread
    last_state,     \* MusicMonitor.last_state
    loop_pc,        \* per loop thread: where it is in _monitor_loop
    sleep_left,     \* per loop thread: ticks left of time.sleep(0.5)
    caller_pc,      \* per caller of start()/stop(): where it is in the call
    join_target,    \* per caller: the thread its stop() joins
    join_left,      \* per caller: ticks left of join(timeout=2)
    saw_sleep,      \* per caller: its stop() found the loop asleep and no start() came since
    start_noop,     \* per caller: its latest call was a start() that returned at line 33
    polled,         \* per loop thread: it has completed a poll cycle
    prev_state,     \* last_state as the latest poll cycle read it
    changes,        \* what _detect_changes returned in the latest poll cycle
    dispatched,     \* what the latest poll cycle passed to on_change_callback, if anything
    acq,            \* how the adapter calls of the latest poll cycle ended
    acquired,       \* what _get_current_state returned in the latest poll cycle
    cb,             \* how the callback call of the latest poll cycle ended
    player_volume,  \* the player's sound volume during the latest poll cycle, where modelled
    call_left,      \* per loop thread: ticks left of an osascript call that hangs
    connected,      \* the realtime clients whose connect was accepted
    inbox,          \* per realtime client: the messages sent to it since it connected
    handshake,      \* the latest realtime connect attempt and what the handler did
    exchange,       \* the latest REST request and what its handler did
    devices_file,   \* trusted_devices.json: its content and whether it parses
    devices,        \* per request handler: TrustedDeviceManager.devices
    device_pc,      \* per request handler: where its device request is
    device_req,     \* per request handler: the device request it serves
    device_resp,    \* per request handler: the response it returned last
    now,            \* datetime.now()
    kept,           \* per fingerprint: registered, and no removal of it came since
    removed,        \* per fingerprint: removed, and no registration of it came since
    player,         \* Music.app: the track, position and state it is in
    track_read,     \* the player as the track query of the poll cycle under way saw it
    told,           \* the track and state that the events dispatched so far add up to
    joining         \* per realtime client: where its connect is, and what was read for it

vars == <<running, thread, last_state, loop_pc, sleep_left, caller_pc,
          join_target, join_left, saw_sleep, start_noop, polled,
          prev_state, changes, dispatched, acq, acquired, cb, player_volume, call_left,
          connected, inbox, handshake, exchange,
          devices_file, devices, device_pc, device_req, device_resp, now,
          kept, removed, player, track_read, told, joining>>

(***************************************************************************)
(* Bounds of the model and constants of the program                         *)
(***************************************************************************)
MaxPosition == 1
MaxThreads == 2
MaxClients == 1
MaxInbox == 2
MaxExcess == 2
MaxDevices == 2
MaxClock == 1

SleepTicks == 1
JoinTimeoutTicks == 4
AdapterTimeoutTicks == 10
DefaultVolume == 50

NoneStr == "<None>"
NoneNum == -1

(***************************************************************************)
(* Dicts                                                                    *)
(***************************************************************************)
EmptyDict == [k \in {} |-> NoneStr]

dict_get(d, k, default) == IF k \in DOMAIN d THEN d[k] ELSE default

Truthy(d) == d # EmptyDict

EventType(e) == dict_get(e, "type", "")

(***************************************************************************)
(* Text                                                                     *)
(***************************************************************************)
Digits == <<"0", "1", "2", "3", "4", "5", "6", "7", "8", "9">>

Str(n) == Digits[n + 1]

IsFloat(s) == \E i \in 1..Len(Digits) : Digits[i] = s

ToFloat(s) == (CHOOSE i \in 1..Len(Digits) : Digits[i] = s) - 1

TimeoutText == "Error: Command timed out"
ExceptionText == "Error: [Errno 2] No such file or directory: 'osascript'"

StartsWithError(s) == s \in {TimeoutText, ExceptionText}

Lower(s) ==
    CASE s = TimeoutText -> "error: command timed out"
      [] s = ExceptionText -> "error: [errno 2] no such file or directory: 'osascript'"
      [] OTHER -> s

(***************************************************************************)
(* The player (Music.app) and the scripts run against it                    *)
(***************************************************************************)
Library ==
    <<[name |-> "A", artist |-> "X", album |-> "L", duration |-> 3],
      [name |-> "B", artist |-> "Y", album |-> "M", duration |-> 3]>>

PlayerStates == {"playing", "paused", "stopped"}

PlayerViews ==
    {[track |-> 1, position |-> 0, state |-> "stopped"]}
    \cup [track : 1..Len(Library), position : 0..MaxPosition,
          state : {"playing", "paused"}]

TrackScript(p) ==
    IF p.state # "stopped"
    THEN <<Library[p.track].name, Library[p.track].artist, Library[p.track].album,
           Str(Library[p.track].duration), Str(p.position)>>
    ELSE <<"No track playing">>

StateScript(p) == <<p.state>>

AdapterOutcomes == {"ok", "timeout", "exception", "nonzero"}

execute_applescript(outcome, stdout) ==
    CASE outcome = "timeout" -> <<TimeoutText>>
      [] outcome = "exception" -> <<ExceptionText>>
      [] outcome = "nonzero" -> <<"">>
      [] OTHER -> stdout

get_playback_state(outcome, p) ==
    Lower(execute_applescript(outcome, StateScript(p))[1])

NoTrack(state) ==
    [name |-> NoneStr, artist |-> NoneStr, album |-> NoneStr,
     duration |-> 0, position |-> 0, state |-> state]

get_current_track(o_track, o_state, p) ==
    LET result == execute_applescript(o_track, TrackScript(p))
        parts == result
    IN  IF result = <<"No track playing">> \/ StartsWithError(result[1])
        THEN NoTrack("stopped")
        ELSE IF \/ Len(parts) > 3 /\ ~IsFloat(parts[4])
                \/ Len(parts) > 4 /\ ~IsFloat(parts[5])
        THEN NoTrack("error") @@ ("error" :> "could not convert string to float")
        ELSE [name |-> IF Len(parts) > 0 THEN parts[1] ELSE NoneStr,
              artist |-> IF Len(parts) > 1 THEN parts[2] ELSE NoneStr,
              album |-> IF Len(parts) > 2 THEN parts[3] ELSE NoneStr,
              duration |-> IF Len(parts) > 3 THEN ToFloat(parts[4]) ELSE 0,
              position |-> IF Len(parts) > 4 THEN ToFloat(parts[5]) ELSE 0,
              state |-> get_playback_state(o_state, p)]

(***************************************************************************)
(* MusicMonitor._get_current_state.  raised: an exception escaped the body  *)
(* of the outer try and the handler of lines 92-93 ran.                     *)
(***************************************************************************)
_get_current_state_reads_volume(o_track, o_inner, o_state, p, raised) ==
    IF raised
    THEN EmptyDict
    ELSE LET track_info == get_current_track(o_track, o_inner, p)
             state_result == execute_applescript(o_state, StateScript(p))
             state == IF state_result # <<"">>
                      THEN Lower(state_result[1])
                      ELSE "stopped"
         IN  [track_name |-> dict_get(track_info, "name", NoneStr),
              track_artist |-> dict_get(track_info, "artist", NoneStr),
              track_album |-> dict_get(track_info, "album", NoneStr),
              position |-> dict_get(track_info, "position", 0),
              duration |-> dict_get(track_info, "duration", 0),
              state |-> state,
              volume |-> dict_get(p, "volume", DefaultVolume)]

_get_current_state(o_track, o_inner, o_state, p, raised) ==
    IF raised
    THEN EmptyDict
    ELSE LET track_info == get_current_track(o_track, o_inner, p)
             state_result == execute_applescript(o_state, StateScript(p))
             state == IF state_result # <<"">>
                      THEN Lower(state_result[1])
                      ELSE "stopped"
         IN  [track_name |-> dict_get(track_info, "name", NoneStr),
              track_artist |-> dict_get(track_info, "artist", NoneStr),
              track_album |-> dict_get(track_info, "album", NoneStr),
              position |-> dict_get(track_info, "position", 0),
              duration |-> dict_get(track_info, "duration", 0),
              state |-> state,
              volume |-> DefaultVolume]

(***************************************************************************)
(* MusicMonitor._detect_changes                                             *)
(***************************************************************************)
TrackPayload(current_state) ==
    [name |-> dict_get(current_state, "track_name", NoneStr),
     artist |-> dict_get(current_state, "track_artist", NoneStr),
     album |-> dict_get(current_state, "track_album", NoneStr),
     position |-> dict_get(current_state, "position", NoneNum),
     duration |-> dict_get(current_state, "duration", NoneNum)]

TrackDiffers(last, current_state) ==
    \/ dict_get(current_state, "track_name", NoneStr) # dict_get(last, "track_name", NoneStr)
    \/ dict_get(current_state, "track_artist", NoneStr) # dict_get(last, "track_artist", NoneStr)

StateDiffers(last, current_state) ==
    dict_get(current_state, "state", NoneStr) # dict_get(last, "state", NoneStr)

VolumeDiffers_wrong_key(last, current_state) ==
    dict_get(current_state, "position", NoneNum) # dict_get(last, "position", NoneNum)

VolumeDiffers(last, current_state) ==
    dict_get(current_state, "volume", NoneNum) # dict_get(last, "volume", NoneNum)

set_type_overwrites(c, type) ==
    [k \in (DOMAIN c) \cup {"type"} |-> IF k = "type" THEN type ELSE c[k]]

set_type(c, type) ==
    IF dict_get(c, "type", "") = "" THEN c @@ ("type" :> type) ELSE c

track_check(last, current_state) ==
    IF TrackDiffers(last, current_state)
    THEN ("type" :> "track_changed") @@ ("track" :> TrackPayload(current_state))
    ELSE EmptyDict

state_check_keeps_old(c, last, current_state) ==
    IF StateDiffers(last, current_state)
    THEN set_type(c, "playback_state_changed")
         @@ ("state" :> dict_get(last, "state", NoneStr))
    ELSE c

state_check(c, last, current_state) ==
    IF StateDiffers(last, current_state)
    THEN set_type(c, "playback_state_changed")
         @@ ("state" :> dict_get(current_state, "state", NoneStr))
    ELSE c

volume_check_keeps_old(c, last, current_state) ==
    IF VolumeDiffers(last, current_state)
    THEN set_type(c, "volume_changed")
         @@ ("volume" :> dict_get(last, "volume", NoneNum))
    ELSE c

volume_check(c, last, current_state) ==
    IF VolumeDiffers(last, current_state)
    THEN set_type(c, "volume_changed")
         @@ ("volume" :> dict_get(current_state, "volume", NoneNum))
    ELSE c

DiffChanges(last, current_state) ==
    LET c == volume_check(state_check(track_check(last, current_state),
                                      last, current_state),
                          last, current_state)
    IN  IF Truthy(c) THEN c ELSE EmptyDict

_detect_changes_type_only(last, current_state) ==
    IF ~Truthy(last)
    THEN ("type" :> "full_update")
    ELSE DiffChanges(last, current_state)

_detect_changes(last, current_state) ==
    IF ~Truthy(last)
    THEN current_state @@ ("type" :> "full_update")
    ELSE DiffChanges(last, current_state)

(***************************************************************************)
(* Initial state: MusicMonitor.__init__                                     *)
(***************************************************************************)
Threads == 1..MaxThreads

Callers == {"main", "other"}

Clients == 1..MaxClients

NoHandshake == [client |-> 0]

NoExchange == [route |-> "none"]

Fingerprints == 1..MaxDevices

RequestHandlers == {"h1", "h2"}

WholeFile(content) == [whole |-> TRUE, content |-> content]

NoRequest == [op |-> "none"]

NoResponse == [status |-> 0]

NothingTold == [name |-> NoneStr, artist |-> NoneStr, state |-> NoneStr]

NotJoining == [pc |-> "none"]

InitRest ==
    /\ running = FALSE
    /\ thread = 0
    /\ loop_pc = [t \in Threads |-> "unborn"]
    /\ sleep_left = [t \in Threads |-> 0]
    /\ caller_pc = [c \in Callers |-> "idle"]
    /\ join_target = [c \in Callers |-> 0]
    /\ join_left = [c \in Callers |-> 0]
    /\ saw_sleep = [c \in Callers |-> FALSE]
    /\ start_noop = [c \in Callers |-> FALSE]
    /\ polled = [t \in Threads |-> FALSE]
    /\ prev_state = EmptyDict
    /\ changes = EmptyDict
    /\ dispatched = EmptyDict
    /\ acq = "none"
    /\ acquired = EmptyDict
    /\ cb = "not_called"
    /\ player_volume = NoneNum
    /\ call_left = [t \in Threads |-> 0]
    /\ connected = {}
    /\ inbox = [c \in Clients |-> <<>>]
    /\ handshake = NoHandshake
    /\ exchange = NoExchange
    /\ devices_file = WholeFile(EmptyDict)
    /\ devices = [h \in RequestHandlers |-> EmptyDict]
    /\ device_pc = [h \in RequestHandlers |-> "idle"]
    /\ device_req = [h \in RequestHandlers |-> NoRequest]
    /\ device_resp = [h \in RequestHandlers |-> NoResponse]
    /\ now = 0
    /\ kept = [f \in Fingerprints |-> FALSE]
    /\ removed = [f \in Fingerprints |-> FALSE]
    /\ player = [track |-> 1, position |-> 0, state |-> "stopped"]
    /\ track_read = player
    /\ told = NothingTold
    /\ joining = [c \in Clients |-> NotJoining]

Init ==
    /\ last_state = EmptyDict
    /\ InitRest

monitor_vars == <<running, thread, last_state>>
cycle_vars == <<prev_state, changes, dispatched, acq, acquired, cb, player_volume>>
store_vars == <<devices_file, devices, device_pc, device_req, device_resp, now,
                kept, removed>>
player_vars == <<player, track_read, told, joining>>
server_vars == <<connected, inbox, handshake, exchange, store_vars, player_vars>>
join_vars == <<join_target, join_left>>

Spawned == {t \in Threads : loop_pc[t] # "unborn"}

Starting == {c \in Callers : caller_pc[c] \in {"start_test", "start_set", "start_spawn"}}

(***************************************************************************)
(* MusicMonitor.start                                                       *)
(***************************************************************************)
StartCall(c) ==
    /\ caller_pc[c] = "idle"
    /\ Cardinality(Spawned) + Cardinality(Starting) < MaxThreads
    /\ caller_pc' = [caller_pc EXCEPT ![c] = "start_test"]
    /\ start_noop' = [start_noop EXCEPT ![c] = FALSE]
    /\ UNCHANGED <<monitor_vars, loop_pc, sleep_left, call_left, join_vars, saw_sleep, polled, cycle_vars, server_vars>>

StartTest_no_guard(c) ==
    /\ caller_pc[c] = "start_test"
    /\ caller_pc' = [caller_pc EXCEPT ![c] = "start_set"]
    /\ start_noop' = [start_noop EXCEPT ![c] = FALSE]
    /\ UNCHANGED <<monitor_vars, loop_pc, sleep_left, call_left, join_vars, saw_sleep, polled, cycle_vars, server_vars>>

StartTest(c) ==
    /\ caller_pc[c] = "start_test"
    /\ caller_pc' = [caller_pc EXCEPT ![c] = IF running THEN "idle" ELSE "start_set"]
    /\ start_noop' = [start_noop EXCEPT ![c] = running]
    /\ UNCHANGED <<monitor_vars, loop_pc, sleep_left, call_left, join_vars, saw_sleep, polled, cycle_vars, server_vars>>

StartSet(c) ==
    /\ caller_pc[c] = "start_set"
    /\ running' = TRUE
    /\ caller_pc' = [caller_pc EXCEPT ![c] = "start_spawn"]
    /\ saw_sleep' = [d \in Callers |-> FALSE]
    /\ UNCHANGED <<thread, last_state, loop_pc, sleep_left, call_left, join_vars, start_noop, polled, cycle_vars, server_vars>>

StartSpawn(c) ==
    /\ caller_pc[c] = "start_spawn"
    /\ LET t == Cardinality(Spawned) + 1
       IN  /\ thread' = t
           /\ loop_pc' = [loop_pc EXCEPT ![t] = "test"]
    /\ caller_pc' = [caller_pc EXCEPT ![c] = "idle"]
    /\ saw_sleep' = [d \in Callers |-> FALSE]
    /\ UNCHANGED <<running, last_state, sleep_left, call_left, join_vars, start_noop, polled, cycle_vars, server_vars>>

(***************************************************************************)
(* MusicMonitor.stop                                                        *)
(***************************************************************************)
StopCall(c) ==
    /\ caller_pc[c] = "idle"
    /\ running' = FALSE
    /\ caller_pc' = [caller_pc EXCEPT ![c] = "stop_if"]
    /\ saw_sleep' = [saw_sleep EXCEPT ![c] = thread # 0 /\ loop_pc[thread] = "sleep"]
    /\ start_noop' = [start_noop EXCEPT ![c] = FALSE]
    /\ UNCHANGED <<thread, last_state, loop_pc, sleep_left, call_left, join_vars, polled, cycle_vars, server_vars>>

StopIf(c) ==
    /\ caller_pc[c] = "stop_if"
    /\ IF thread # 0
       THEN /\ caller_pc' = [caller_pc EXCEPT ![c] = "stop_join"]
            /\ join_target' = [join_target EXCEPT ![c] = thread]
            /\ join_left' = [join_left EXCEPT ![c] = JoinTimeoutTicks]
            /\ UNCHANGED saw_sleep
       ELSE /\ caller_pc' = [caller_pc EXCEPT ![c] = "idle"]
            /\ saw_sleep' = [saw_sleep EXCEPT ![c] = FALSE]
            /\ UNCHANGED join_vars
    /\ UNCHANGED <<monitor_vars, loop_pc, sleep_left, call_left, start_noop, polled, cycle_vars, server_vars>>

StopReturn(c) ==
    /\ caller_pc' = [caller_pc EXCEPT ![c] = "idle"]
    /\ join_target' = [join_target EXCEPT ![c] = 0]
    /\ join_left' = [join_left EXCEPT ![c] = 0]
    /\ saw_sleep' = [saw_sleep EXCEPT ![c] = FALSE]
    /\ UNCHANGED <<monitor_vars, loop_pc, sleep_left, call_left, start_noop, polled, cycle_vars, server_vars>>

JoinReturn(c) ==
    /\ caller_pc[c] = "stop_join"
    /\ loop_pc[join_target[c]] = "done"
    /\ StopReturn(c)

JoinTimeout(c) ==
    /\ caller_pc[c] = "stop_join"
    /\ loop_pc[join_target[c]] # "done"
    /\ join_left[c] = 0
    /\ StopReturn(c)

(***************************************************************************)
(* MusicMonitor._monitor_loop                                               *)
(***************************************************************************)
LoopTest_ignores_flag(t) ==
    /\ loop_pc[t] = "test"
    /\ loop_pc' = [loop_pc EXCEPT ![t] = "cycle"]
    /\ UNCHANGED <<monitor_vars, sleep_left, call_left, caller_pc, join_vars, saw_sleep,
                   start_noop, polled, cycle_vars, server_vars>>

LoopTest(t) ==
    /\ loop_pc[t] = "test"
    /\ loop_pc' = [loop_pc EXCEPT ![t] = IF running THEN "cycle" ELSE "done"]
    /\ UNCHANGED <<monitor_vars, sleep_left, call_left, caller_pc, join_vars, saw_sleep,
                   start_noop, polled, cycle_vars, server_vars>>

InnerCallMade(o_track, p) == o_track = "ok" /\ p.state # "stopped"

AcqKind(o_track, o_inner, o_state, raised) ==
    IF raised THEN "raised"
    ELSE IF o_track # "ok" \/ o_state # "ok" THEN "failed"
    ELSE IF o_inner # "ok" THEN "inner_failed"
    ELSE "ok"

(***************************************************************************)
(* What one call of _get_current_state can return: the player as the        *)
(* adapter sees it, how each osascript call ends, and whether an exception  *)
(* escaped.  The inner get_playback_state call is made only when the track  *)
(* query printed a track line.                                              *)
(***************************************************************************)
AcquireInputs(Views, Outcomes, Raises) ==
    {i \in [raised : Raises, p : Views, o_track : Outcomes,
            o_inner : Outcomes, o_state : Outcomes] :
        /\ i.raised => /\ i.p = (CHOOSE v \in Views : TRUE)
                       /\ i.o_track = "ok" /\ i.o_state = "ok"
        /\ (i.raised \/ ~InnerCallMade(i.o_track, i.p)) => i.o_inner = "ok"}

Acquire(i) ==
    [snapshot |-> _get_current_state(i.o_track, i.o_inner, i.o_state, i.p, i.raised),
     kind |-> AcqKind(i.o_track, i.o_inner, i.o_state, i.raised),
     volume |-> IF "volume" \in DOMAIN i.p THEN i.p.volume ELSE NoneNum]

Acquisitions(Views, Outcomes, Raises) ==
    {Acquire(i) : i \in AcquireInputs(Views, Outcomes, Raises)}

(***************************************************************************)
(* The change callback.  A call of it either returns or raises; what it     *)
(* does meanwhile is the inboxes it leaves.                                 *)
(*                                                                          *)
(* on_music_change (server.py): socketio.emit sends the event to every      *)
(* connected client.  o says whether the emit raised and which clients it   *)
(* had reached by then; the handler of lines 411-412 absorbs the exception. *)
(***************************************************************************)
Message(event, data) == [event |-> event, data |-> data]

Broadcast(event, data, reached) ==
    [c \in Clients |->
        IF c \in connected \cap reached
        THEN Append(inbox[c], Message(event, data))
        ELSE inbox[c]]

DeliveredToAll == [raises |-> FALSE, reached |-> Clients]

EmitOutcomes ==
    {DeliveredToAll}
    \cup {[raises |-> TRUE, reached |-> S] : S \in (SUBSET Clients) \ {Clients}}

EmitDelivers == {DeliveredToAll}

on_music_change_no_try(changes_arg, o) ==
    [raised |-> o.raises,
     inbox |-> Broadcast("music_update", changes_arg, o.reached),
     how |-> IF o.raises THEN "raised" ELSE "returned"]

on_music_change(changes_arg, o) ==
    [raised |-> FALSE,
     inbox |-> Broadcast("music_update", changes_arg, o.reached),
     how |-> IF o.raises THEN "absorbed" ELSE "returned"]

(***************************************************************************)
(* Any other callable handed to MusicMonitor(on_change_callback=...): it    *)
(* may let an exception out.                                                *)
(***************************************************************************)
CallableOutcomes == [raises : BOOLEAN, reached : {{}}]

any_callable(changes_arg, o) ==
    [raised |-> o.raises,
     inbox |-> inbox,
     how |-> IF o.raises THEN "raised" ELSE "returned"]

on_change_callback(callback, changes_arg, o) ==
    IF callback = "on_music_change"
    THEN on_music_change(changes_arg, o)
    ELSE any_callable(changes_arg, o)

(***************************************************************************)
(* The body of the loop's try (lines 51-59) and its handler (61-62): an     *)
(* exception out of the callback skips the store of line 59.                *)
(***************************************************************************)
\* what a subscriber that applies the events in order holds after event e
Tell(before, e) ==
    CASE EventType(e) = "full_update" ->
            [name |-> dict_get(e, "track_name", NoneStr),
             artist |-> dict_get(e, "track_artist", NoneStr),
             state |-> dict_get(e, "state", NoneStr)]
      [] EventType(e) = "track_changed" ->
            [name |-> e.track.name, artist |-> e.track.artist,
             state |-> dict_get(e, "state", before.state)]
      [] EventType(e) = "playback_state_changed" ->
            [before EXCEPT !.state = e.state]
      [] OTHER -> before

LoopBody(current_state, kind, callback, o) ==
    LET ch == _detect_changes(last_state, current_state)
        r == IF Truthy(ch)
             THEN on_change_callback(callback, ch, o)
             ELSE [raised |-> FALSE, inbox |-> inbox, how |-> "not_called"]
    IN  /\ prev_state' = last_state
        /\ acquired' = current_state
        /\ changes' = ch
        /\ dispatched' = IF Truthy(ch) THEN ch ELSE EmptyDict
        /\ told' = IF Truthy(ch) THEN Tell(told, ch) ELSE told
        /\ inbox' = r.inbox
        /\ cb' = r.how
        /\ last_state' = IF r.raised THEN last_state ELSE current_state
        /\ acq' = kind

CycleEnd_dies_on_error(t, Acquired, callback, Outcomes) ==
    /\ \E a \in Acquired, o \in Outcomes :
        /\ LoopBody(a.snapshot, a.kind, callback, o)
        /\ player_volume' = a.volume
    /\ loop_pc' = [loop_pc EXCEPT ![t] = IF cb' = "raised" THEN "done" ELSE "sleep"]
    /\ sleep_left' = [sleep_left EXCEPT ![t] = SleepTicks]
    /\ polled' = [polled EXCEPT ![t] = TRUE]
    /\ UNCHANGED <<running, thread, call_left, caller_pc, join_vars, saw_sleep,
                   start_noop, connected, handshake, exchange, store_vars,
                   player, track_read, joining>>

CycleEnd(t, Acquired, callback, Outcomes) ==
    /\ \E a \in Acquired, o \in Outcomes :
        /\ LoopBody(a.snapshot, a.kind, callback, o)
        /\ player_volume' = a.volume
    /\ loop_pc' = [loop_pc EXCEPT ![t] = "sleep"]
    /\ sleep_left' = [sleep_left EXCEPT ![t] = SleepTicks]
    /\ polled' = [polled EXCEPT ![t] = TRUE]
    /\ UNCHANGED <<running, thread, call_left, caller_pc, join_vars, saw_sleep,
                   start_noop, connected, handshake, exchange, store_vars,
                   player, track_read, joining>>

LoopCycle(t, Acquired, callback, Outcomes) ==
    /\ loop_pc[t] = "cycle"
    /\ CycleEnd(t, Acquired, callback, Outcomes)

(***************************************************************************)
(* A poll cycle whose track query hangs: osascript is killed after          *)
(* timeout=5 seconds (applescript_commands.py:24) and the cycle goes on     *)
(* with "Error: Command timed out".                                         *)
(***************************************************************************)
LoopCallHangs(t) ==
    /\ loop_pc[t] = "cycle"
    /\ loop_pc' = [loop_pc EXCEPT ![t] = "in_call"]
    /\ call_left' = [call_left EXCEPT ![t] = AdapterTimeoutTicks]
    /\ UNCHANGED <<monitor_vars, sleep_left, caller_pc, join_vars, saw_sleep,
                   start_noop, polled, cycle_vars, server_vars>>

LoopCallTimesOut(t, Acquired, callback, Outcomes) ==
    /\ loop_pc[t] = "in_call"
    /\ call_left[t] = 0
    /\ CycleEnd(t, Acquired, callback, Outcomes)

LoopWake(t) ==
    /\ loop_pc[t] = "sleep"
    /\ sleep_left[t] = 0
    /\ loop_pc' = [loop_pc EXCEPT ![t] = "test"]
    /\ UNCHANGED <<monitor_vars, sleep_left, call_left, caller_pc, join_vars, saw_sleep,
                   start_noop, polled, cycle_vars, server_vars>>

(***************************************************************************)
(* Half a second passes.  A thread about to test the loop flag, a sleep     *)
(* that has run out, a call that has timed out and a join whose timeout has *)
(* run out act before more time passes.                                     *)
(***************************************************************************)
Sleepers == {t \in Threads : loop_pc[t] = "sleep"}

Hung == {t \in Threads : loop_pc[t] = "in_call"}

Joiners == {c \in Callers : caller_pc[c] = "stop_join"}

Tick ==
    /\ Sleepers # {} \/ Joiners # {} \/ Hung # {}
    /\ \A t \in Threads : loop_pc[t] # "test"
    /\ \A t \in Sleepers : sleep_left[t] > 0
    /\ \A t \in Hung : call_left[t] > 0
    /\ \A c \in Joiners : join_left[c] > 0
    /\ sleep_left' = [t \in Threads |-> IF t \in Sleepers THEN sleep_left[t] - 1 ELSE sleep_left[t]]
    /\ call_left' = [t \in Threads |-> IF t \in Hung THEN call_left[t] - 1 ELSE call_left[t]]
    /\ join_left' = [c \in Callers |-> IF c \in Joiners THEN join_left[c] - 1 ELSE join_left[c]]
    /\ UNCHANGED <<monitor_vars, loop_pc, caller_pc, join_target, saw_sleep,
                   start_noop, polled, cycle_vars, server_vars>>

(***************************************************************************)
(* Spec: the monitor as server.py runs it while it serves.  The main        *)
(* thread starts it once at import (server.py:416-417); the player and the  *)
(* adapter behave in every way.                                             *)
(***************************************************************************)
ServerStart == thread = 0 /\ StartCall("main")

AllAcquisitions == Acquisitions(PlayerViews, AdapterOutcomes, BOOLEAN)

Poll == \E t \in Threads : LoopCycle(t, AllAcquisitions, "on_music_change", EmitOutcomes)

Next ==
    \/ ServerStart
    \/ StartTest("main")
    \/ StartSet("main")
    \/ StartSpawn("main")
    \/ \E t \in Threads : LoopTest(t)
    \/ Poll
    \/ \E t \in Threads : LoopWake(t)
    \/ Tick

Spec == Init /\ [][Next]_vars

(***************************************************************************)
(* SpecLifecycle: two callers call start() and stop() in any order and      *)
(* interleaving, while the player keeps playing and the adapter answers.    *)
(* The loop threads, the clock and a pending join are scheduled fairly.     *)
(***************************************************************************)
QuietViews == {[track |-> 1, position |-> 0, state |-> "playing"]}

QuietAcquisitions == Acquisitions(QuietViews, {"ok"}, {FALSE})

QuietPoll == \E t \in Threads : LoopCycle(t, QuietAcquisitions, "on_music_change", EmitDelivers)

NextLifecycle ==
    \/ \E c \in Callers : StartCall(c)
    \/ \E c \in Callers : StartTest(c)
    \/ \E c \in Callers : StartSet(c)
    \/ \E c \in Callers : StartSpawn(c)
    \/ \E c \in Callers : StopCall(c)
    \/ \E c \in Callers : StopIf(c)
    \/ \E c \in Callers : JoinReturn(c)
    \/ \E c \in Callers : JoinTimeout(c)
    \/ \E t \in Threads : LoopTest(t)
    \/ QuietPoll
    \/ \E t \in Threads : LoopWake(t)
    \/ Tick

LoopFairness ==
    /\ \A t \in Threads : WF_vars(LoopTest(t))
    /\ \A t \in Threads : WF_vars(LoopCycle(t, QuietAcquisitions, "on_music_change", EmitDelivers))
    /\ \A t \in Threads : WF_vars(LoopWake(t))
    /\ \A c \in Callers : WF_vars(JoinReturn(c))
    /\ \A c \in Callers : WF_vars(JoinTimeout(c))
    /\ WF_vars(Tick)

SpecLifecycle == Init /\ [][NextLifecycle]_vars /\ LoopFairness

(***************************************************************************)
(* SpecRestart: one thread calls start() and stop() one after the other in  *)
(* any order, while the player does anything and the adapter answers.       *)
(***************************************************************************)
AnsweredAcquisitions ==
    Acquisitions({v \in PlayerViews : v.position = 0}, {"ok"}, {FALSE})

AnsweredPoll == \E t \in Threads : LoopCycle(t, AnsweredAcquisitions, "on_music_change", EmitDelivers)

NextRestart ==
    \/ StartCall("main")
    \/ StartTest("main")
    \/ StartSet("main")
    \/ StartSpawn("main")
    \/ StopCall("main")
    \/ StopIf("main")
    \/ JoinReturn("main")
    \/ JoinTimeout("main")
    \/ \E t \in Threads : LoopTest(t)
    \/ AnsweredPoll
    \/ \E t \in Threads : LoopWake(t)
    \/ Tick

SpecRestart == Init /\ [][NextRestart]_vars

(***************************************************************************)
(* SpecCallable: MusicMonitor constructed with any callable as its change   *)
(* callback, started and stopped by one thread, while the player does       *)
(* plays either track and the adapter answers or acquisition raises.        *)
(***************************************************************************)
CallableAcquisitions ==
    Acquisitions({v \in PlayerViews : v.position = 0 /\ v.state = "playing"},
                 {"ok"}, BOOLEAN)

CallablePoll ==
    \E t \in Threads : LoopCycle(t, CallableAcquisitions, "callable", CallableOutcomes)

NextCallable ==
    \/ StartCall("main")
    \/ StartTest("main")
    \/ StartSet("main")
    \/ StartSpawn("main")
    \/ StopCall("main")
    \/ StopIf("main")
    \/ JoinReturn("main")
    \/ JoinTimeout("main")
    \/ \E t \in Threads : LoopTest(t)
    \/ CallablePoll
    \/ \E t \in Threads : LoopWake(t)
    \/ Tick

SpecCallable == Init /\ [][NextCallable]_vars

(***************************************************************************)
(* SpecVolume: the monitor as server.py runs it, while the player plays,    *)
(* pauses, stops and has its sound volume set to anything, and the adapter  *)
(* answers or times out.                                                    *)
(***************************************************************************)
PlayerVolumes == {0, DefaultVolume, 100}

VolumeViews ==
    {v @@ ("volume" :> n) : v \in {w \in PlayerViews : w.position = 0},
                            n \in PlayerVolumes}

VolumeAcquisitions == Acquisitions(VolumeViews, {"ok", "timeout"}, BOOLEAN)

VolumePoll ==
    \E t \in Threads : LoopCycle(t, VolumeAcquisitions, "on_music_change", EmitDelivers)

NextVolume ==
    \/ ServerStart
    \/ StartTest("main")
    \/ StartSet("main")
    \/ StartSpawn("main")
    \/ \E t \in Threads : LoopTest(t)
    \/ VolumePoll
    \/ \E t \in Threads : LoopWake(t)
    \/ Tick

SpecVolume == Init /\ [][NextVolume]_vars

(***************************************************************************)
(* SpecPropagation: the monitor as server.py runs it, the adapter           *)
(* answering, and the player changing track and state at any moment, also   *)
(* between the track query and the state query of one poll cycle.  The loop *)
(* thread and the clock are scheduled fairly; the player need never change. *)
(***************************************************************************)
PropagationViews == {v \in PlayerViews : v.position = 0}

PlayerChanges ==
    /\ \E v \in PropagationViews \ {player} : player' = v
    /\ UNCHANGED <<monitor_vars, loop_pc, sleep_left, call_left, caller_pc, join_vars,
                   saw_sleep, start_noop, polled, cycle_vars, connected, inbox,
                   handshake, exchange, store_vars, track_read, told, joining>>

\* get_current_track (music_monitor.py:70) runs its script
LoopReadsTrack(t) ==
    /\ loop_pc[t] = "cycle"
    /\ loop_pc' = [loop_pc EXCEPT ![t] = "state_query"]
    /\ track_read' = player
    /\ UNCHANGED <<monitor_vars, sleep_left, call_left, caller_pc, join_vars,
                   saw_sleep, start_noop, polled, cycle_vars, connected, inbox,
                   handshake, exchange, store_vars, player, told, joining>>

\* _get_current_state whose track query saw p_track and whose state query sees p_state
TornAcquire(p_track, p_state) ==
    [snapshot |-> [_get_current_state("ok", "ok", "ok", p_track, FALSE)
                     EXCEPT !.state = _get_current_state("ok", "ok", "ok", p_state, FALSE).state],
     kind |-> "ok",
     volume |-> NoneNum]

\* the state query (lines 74-78) and the rest of the cycle
LoopReadsState(t) ==
    /\ loop_pc[t] = "state_query"
    /\ CycleEnd(t, {TornAcquire(track_read, player)}, "on_music_change", EmitDelivers)

NextPropagation ==
    \/ ServerStart
    \/ StartTest("main")
    \/ StartSet("main")
    \/ StartSpawn("main")
    \/ \E t \in Threads : LoopTest(t)
    \/ \E t \in Threads : LoopReadsTrack(t)
    \/ \E t \in Threads : LoopReadsState(t)
    \/ \E t \in Threads : LoopWake(t)
    \/ Tick
    \/ PlayerChanges

PropagationFairness ==
    /\ WF_vars(ServerStart)
    /\ WF_vars(StartTest("main"))
    /\ WF_vars(StartSet("main"))
    /\ WF_vars(StartSpawn("main"))
    /\ \A t \in Threads : WF_vars(LoopTest(t))
    /\ \A t \in Threads : WF_vars(LoopReadsTrack(t))
    /\ \A t \in Threads : WF_vars(LoopReadsState(t))
    /\ \A t \in Threads : WF_vars(LoopWake(t))
    /\ WF_vars(Tick)

SpecPropagation == Init /\ [][NextPropagation]_vars /\ PropagationFairness

(***************************************************************************)
(* SpecHang: one thread calls start() and stop() one after the other while  *)
(* the player keeps playing and the track query of a poll cycle may hang    *)
(* until osascript is killed.  A cycle whose calls answer takes no time.    *)
(***************************************************************************)
HangTick ==
    /\ \A t \in Threads : loop_pc[t] # "cycle"
    /\ Tick

HangAcquisitions ==
    {Acquire(i) : i \in {j \in AcquireInputs(QuietViews, {"ok", "timeout"}, {FALSE}) :
                            j.o_track = "timeout" /\ j.o_state = "ok"}}

HangPoll ==
    \E t \in Threads :
        LoopCallTimesOut(t, HangAcquisitions, "on_music_change", EmitDelivers)

NextHang ==
    \/ StartCall("main")
    \/ StartTest("main")
    \/ StartSet("main")
    \/ StartSpawn("main")
    \/ StopCall("main")
    \/ StopIf("main")
    \/ JoinReturn("main")
    \/ JoinTimeout("main")
    \/ \E t \in Threads : LoopTest(t)
    \/ QuietPoll
    \/ \E t \in Threads : LoopCallHangs(t)
    \/ HangPoll
    \/ \E t \in Threads : LoopWake(t)
    \/ HangTick

SpecHang == Init /\ [][NextHang]_vars

(***************************************************************************)
(* Text of numbers: str(int) and int(str), a string being the sequence of   *)
(* its characters.                                                          *)
(***************************************************************************)
RECURSIVE Numeral(_)
Numeral(n) ==
    IF n < 10
    THEN <<Digits[n + 1]>>
    ELSE Append(Numeral(n \div 10), Digits[(n % 10) + 1])

IntText(n) == IF n < 0 THEN <<"-">> \o Numeral(0 - n) ELSE Numeral(n)

IsDigit(ch) == \E i \in 1..Len(Digits) : Digits[i] = ch

DigitValue(ch) == (CHOOSE i \in 1..Len(Digits) : Digits[i] = ch) - 1

RECURSIVE NumeralValue(_)
NumeralValue(s) ==
    IF Len(s) = 1
    THEN DigitValue(s[1])
    ELSE 10 * NumeralValue(SubSeq(s, 1, Len(s) - 1)) + DigitValue(s[Len(s)])

Unsigned(s) == IF Len(s) > 0 /\ s[1] \in {"-", "+"} THEN Tail(s) ELSE s

IsIntText(s) ==
    /\ Len(Unsigned(s)) > 0
    /\ \A i \in 1..Len(Unsigned(s)) : IsDigit(Unsigned(s)[i])

IntValue(s) ==
    IF s[1] = "-" THEN 0 - NumeralValue(Unsigned(s)) ELSE NumeralValue(Unsigned(s))

(***************************************************************************)
(* JSON values of a request body, and Python's int() and float() of them.   *)
(* A conversion returns the exception it raised, if any.                    *)
(***************************************************************************)
JInt(n) == [t |-> "int", n |-> n, s |-> <<>>]
JBool(b) == [t |-> "bool", n |-> IF b THEN 1 ELSE 0, s |-> <<>>]
JStr(s) == [t |-> "str", n |-> 0, s |-> s]
JNull == [t |-> "null", n |-> 0, s |-> <<>>]

int(v) ==
    CASE v.t \in {"int", "bool"} -> [raised |-> "", value |-> v.n]
      [] v.t = "str" /\ IsIntText(v.s) -> [raised |-> "", value |-> IntValue(v.s)]
      [] v.t = "str" -> [raised |-> "ValueError", value |-> 0]
      [] OTHER -> [raised |-> "TypeError", value |-> 0]

\* float() of the whole numbers and their texts; a float prints with ".0"
float(v) == int(v)

FloatText(x) == IntText(x) \o <<".", "0">>

(***************************************************************************)
(* The commands of applescript_commands.py: the scripts they run.  A script *)
(* is its command and the text of its argument.                             *)
(***************************************************************************)
Script(cmd, arg) == [cmd |-> cmd, arg |-> arg]

Max(a, b) == IF a > b THEN a ELSE b

Min(a, b) == IF a < b THEN a ELSE b

set_volume_unclamped(level) == <<Script("set sound volume to", IntText(level))>>

set_volume(level) ==
    <<Script("set sound volume to", IntText(Max(0, Min(100, level))))>>

seek_to_position(position) == <<Script("set player position to", FloatText(position))>>

TrackQuery(o_track, p) ==
    IF InnerCallMade(o_track, p)
    THEN <<Script("current track", <<>>), Script("get player state", <<>>)>>
    ELSE <<Script("current track", <<>>)>>

(***************************************************************************)
(* server.py: the token, the routes and require_auth                        *)
(***************************************************************************)
AuthToken == "tok"

Routes ==
    {[name |-> "GET /ping", auth |-> FALSE],
     [name |-> "GET /status", auth |-> TRUE],
     [name |-> "GET /current-track", auth |-> TRUE],
     [name |-> "POST /play", auth |-> TRUE],
     [name |-> "POST /pause", auth |-> TRUE],
     [name |-> "POST /next", auth |-> TRUE],
     [name |-> "POST /previous", auth |-> TRUE],
     [name |-> "POST /volume", auth |-> TRUE],
     [name |-> "GET /playlists", auth |-> TRUE],
     [name |-> "POST /playlist/<playlist_name>/play", auth |-> TRUE],
     [name |-> "GET /artwork", auth |-> TRUE],
     [name |-> "POST /seek", auth |-> TRUE],
     [name |-> "GET /search", auth |-> TRUE],
     [name |-> "POST /play-track/<track_id>", auth |-> TRUE],
     [name |-> "POST /device/register", auth |-> TRUE],
     [name |-> "POST /device/check", auth |-> FALSE],
     [name |-> "GET /device/list", auth |-> TRUE],
     [name |-> "DELETE /device/remove/<device_fingerprint>", auth |-> TRUE],
     [name |-> "GET /repeat", auth |-> TRUE],
     [name |-> "POST /repeat", auth |-> TRUE],
     [name |-> "GET /shuffle", auth |-> TRUE],
     [name |-> "POST /shuffle", auth |-> TRUE]}

Response(status, error, success) ==
    [status |-> status, error |-> error, success |-> success,
     adapter |-> <<>>, store |-> <<>>, level |-> NoneNum]

Unauthorized(error) == Response(401, error, FALSE)

Ok(adapter, store) ==
    [Response(200, "", FALSE) EXCEPT !.adapter = adapter, !.store = store]

Done(adapter) ==
    [Response(200, "", TRUE) EXCEPT !.adapter = adapter]

(***************************************************************************)
(* The Authorization header: absent, the empty string, or a text that       *)
(* str.split() cuts into parts.                                             *)
(***************************************************************************)
NoHeader == [value |-> "none", parts |-> <<>>]

EmptyHeader == [value |-> "empty", parts |-> <<>>]

Header(parts) == [value |-> "text", parts |-> parts]

require_auth_any_scheme(header, f) ==
    IF header.value \in {"none", "empty"}
    THEN Unauthorized("No authorization header provided")
    ELSE IF Len(header.parts) # 2
    THEN Unauthorized("Invalid authorization header format")
    ELSE IF header.parts[2] # AuthToken
    THEN Unauthorized("Invalid authentication token")
    ELSE f

require_auth(header, f) ==
    IF header.value \in {"none", "empty"}
    THEN Unauthorized("No authorization header provided")
    ELSE IF Len(header.parts) # 2 \/ header.parts[1] # "Bearer"
    THEN Unauthorized("Invalid authorization header format")
    ELSE IF header.parts[2] # AuthToken
    THEN Unauthorized("Invalid authentication token")
    ELSE f

(***************************************************************************)
(* The route handlers.  req: the route, the Authorization header, whether   *)
(* the body parsed (get_json() is not None), the parsed dict, and the query *)
(* arguments.  env: how the osascript calls of the request end (o: the      *)
(* first, o_second: a second one), the player, whether the artwork file     *)
(* exists, whether the fingerprint is in the device store.                  *)
(***************************************************************************)
Falsy(req) == ~req.json \/ req.data = EmptyDict

AttributeError == Response(500, "AttributeError", FALSE)

TypeError == Response(500, "TypeError", FALSE)

BadRequest(error) == Response(400, error, FALSE)

NotFound(error) == Response(404, error, FALSE)

ping == Response(200, "", FALSE)

get_status ==
    Ok(<<Script("get player state", <<>>), Script("get sound volume", <<>>)>>, <<>>)

current_track(env) == Ok(TrackQuery(env.o, env.p), <<>>)

play(env) == Done(<<Script("play", <<>>)>>)

pause(env) == Done(<<Script("pause", <<>>)>>)

next_track(env) ==
    Done(<<Script("next track", <<>>)>> \o TrackQuery(env.o_second, env.p))

previous_track(env) ==
    Done(<<Script("previous track", <<>>)>> \o TrackQuery(env.o_second, env.p))

volume_route(req) ==
    IF Falsy(req) \/ "level" \notin DOMAIN req.data
    THEN BadRequest("Volume level not provided")
    ELSE LET level == int(req.data["level"])
         IN  CASE level.raised = "ValueError" -> BadRequest("Invalid volume level")
               [] level.raised = "TypeError" -> TypeError
               [] OTHER -> [Done(set_volume(level.value)) EXCEPT !.level = level.value]

get_playlists == Ok(<<Script("name of playlists", <<>>)>>, <<>>)

play_playlist(req) == Done(<<Script("play playlist", req.args.path)>>)

get_artwork(env) ==
    LET track_id == execute_applescript(env.o,
                        IF env.p.state # "stopped" THEN <<"7">> ELSE <<"0">>)
        first == <<Script("database ID of current track", <<>>)>>
        second == <<Script("data of artwork 1 of current track", <<>>)>>
    IN  IF track_id = <<"0">> \/ StartsWithError(track_id[1])
        THEN [NotFound("No artwork available") EXCEPT !.adapter = first]
        ELSE IF env.file = "cached"
        THEN Ok(first, <<>>)
        ELSE IF env.file = "written" /\ env.o_second = "ok" /\ env.p.state # "stopped"
        THEN Ok(first \o second, <<>>)
        ELSE [NotFound("No artwork available") EXCEPT !.adapter = first \o second]

seek(req) ==
    IF Falsy(req) \/ "position" \notin DOMAIN req.data
    THEN BadRequest("Position not provided")
    ELSE LET position == float(req.data["position"])
         IN  CASE position.raised = "ValueError" -> BadRequest("Invalid position")
               [] position.raised = "TypeError" -> TypeError
               [] OTHER -> Done(seek_to_position(position.value))

search(req) ==
    LET query == dict_get(req.args, "query", <<>>)
        search_type == dict_get(req.args, "type", <<"track">>)
    IN  IF query = <<>>
        THEN BadRequest("Query parameter required")
        ELSE IF search_type \notin {<<"track">>, <<"album">>, <<"artist">>}
        THEN BadRequest("Invalid search type")
        ELSE IF Len(query) < 2
        THEN Ok(<<>>, <<>>)
        ELSE Ok(<<Script("search library playlist 1 for", query)>>, <<>>)

play_track(req, env) ==
    Done(<<Script("play track whose database ID is", req.args.path)>>
         \o TrackQuery(env.o_second, env.p))

register_device(req) ==
    IF Falsy(req) \/ "device_fingerprint" \notin DOMAIN req.data
    THEN BadRequest("Device fingerprint required")
    ELSE [Response(200, "", TRUE)
            EXCEPT !.store = <<"_load_devices", "add_device", "_save_devices">>]

check_device(req, env) ==
    IF Falsy(req) \/ "device_fingerprint" \notin DOMAIN req.data
    THEN BadRequest("Device fingerprint required")
    ELSE Ok(<<>>, IF env.known
                  THEN <<"_load_devices", "is_trusted", "_save_devices">>
                  ELSE <<"_load_devices", "is_trusted">>)

list_devices == Ok(<<>>, <<"_load_devices", "get_all_devices">>)

remove_device(env) ==
    IF env.known
    THEN [Response(200, "", TRUE)
            EXCEPT !.store = <<"_load_devices", "remove_device", "_save_devices">>]
    ELSE [NotFound("Device not found")
            EXCEPT !.store = <<"_load_devices", "remove_device">>]

get_repeat == Ok(<<Script("get song repeat", <<>>)>>, <<>>)

set_repeat(req) ==
    IF ~req.json
    THEN AttributeError
    ELSE LET mode == dict_get(req.data, "mode", JStr(<<"off">>))
         IN  IF mode \notin {JStr(<<"off">>), JStr(<<"one">>), JStr(<<"all">>)}
             THEN BadRequest("Invalid mode. Use: off, one, or all")
             ELSE Ok(<<Script("set song repeat to", mode.s)>>, <<>>)

get_shuffle == Ok(<<Script("get shuffle enabled", <<>>)>>, <<>>)

set_shuffle(req) ==
    IF ~req.json
    THEN AttributeError
    ELSE LET enabled == dict_get(req.data, "enabled", JBool(FALSE))
             truthy == enabled \notin {JBool(FALSE), JInt(0), JStr(<<>>), JNull}
         IN  Ok(<<Script("set shuffle enabled to",
                         IF truthy THEN <<"true">> ELSE <<"false">>)>>, <<>>)

Handler(req, env) ==
    CASE req.route = "GET /ping" -> ping
      [] req.route = "GET /status" -> get_status
      [] req.route = "GET /current-track" -> current_track(env)
      [] req.route = "POST /play" -> play(env)
      [] req.route = "POST /pause" -> pause(env)
      [] req.route = "POST /next" -> next_track(env)
      [] req.route = "POST /previous" -> previous_track(env)
      [] req.route = "POST /volume" -> volume_route(req)
      [] req.route = "GET /playlists" -> get_playlists
      [] req.route = "POST /playlist/<playlist_name>/play" -> play_playlist(req)
      [] req.route = "GET /artwork" -> get_artwork(env)
      [] req.route = "POST /seek" -> seek(req)
      [] req.route = "GET /search" -> search(req)
      [] req.route = "POST /play-track/<track_id>" -> play_track(req, env)
      [] req.route = "POST /device/register" -> register_device(req)
      [] req.route = "POST /device/check" -> check_device(req, env)
      [] req.route = "GET /device/list" -> list_devices
      [] req.route = "DELETE /device/remove/<device_fingerprint>" -> remove_device(env)
      [] req.route = "GET /repeat" -> get_repeat
      [] req.route = "POST /repeat" -> set_repeat(req)
      [] req.route = "GET /shuffle" -> get_shuffle
      [] req.route = "POST /shuffle" -> set_shuffle(req)

Decorated(name) == \E r \in Routes : r.name = name /\ r.auth

Serve(req, env) ==
    IF Decorated(req.route)
    THEN require_auth(req.header, Handler(req, env))
    ELSE Handler(req, env)

(***************************************************************************)
(* SpecGateway: one REST request at a time, of every route, with every      *)
(* Authorization header of a bounded set, every body of a bounded set and   *)
(* every way the adapter calls can end.                                     *)
(***************************************************************************)
HeaderWords == {"Bearer", "bearer", "Basic", AuthToken, "TOK", "tok2"}

GoodHeader == Header(<<"Bearer", AuthToken>>)

Headers ==
    {NoHeader, EmptyHeader, Header(<<>>)}
    \cup {Header(<<w>>) : w \in HeaderWords}
    \cup {Header(<<v, w>>) : v \in HeaderWords, w \in HeaderWords}
    \cup {Header(<<"Bearer", AuthToken, w>>) : w \in HeaderWords}

NoBody == [json |-> FALSE, data |-> EmptyDict]

Body(d) == [json |-> TRUE, data |-> d]

VolumeLevels == ((0 - MaxExcess)..(100 + MaxExcess)) \cup {0 - 150, 150}

OddValues ==
    {JStr(<<"1", "5", "0">>), JStr(<<"-", "5">>), JStr(<<"l", "o", "u", "d">>),
     JStr(<<>>), JNull, JBool(TRUE)}

BodiesFor(route) ==
    CASE route = "POST /volume" ->
            {NoBody, Body(EmptyDict), Body("volume" :> JInt(1))}
            \cup {Body("level" :> JInt(n)) : n \in VolumeLevels}
            \cup {Body("level" :> v) : v \in OddValues}
      [] route = "POST /seek" ->
            {NoBody, Body(EmptyDict)}
            \cup {Body("position" :> JInt(n)) : n \in {0, 30}}
            \cup {Body("position" :> v) : v \in OddValues}
      [] route = "POST /repeat" ->
            {NoBody, Body(EmptyDict)}
            \cup {Body("mode" :> JStr(m)) : m \in {<<"off">>, <<"one">>, <<"all">>, <<"some">>}}
            \cup {Body("mode" :> v) : v \in OddValues}
      [] route = "POST /shuffle" ->
            {NoBody, Body(EmptyDict)}
            \cup {Body("enabled" :> JBool(b)) : b \in BOOLEAN}
            \cup {Body("enabled" :> v) : v \in OddValues}
      [] route \in {"POST /device/register", "POST /device/check"} ->
            {NoBody, Body(EmptyDict), Body("device_fingerprint" :> JStr(<<"f", "p">>))}
      [] OTHER -> {NoBody}

ArgsFor(route) ==
    CASE route = "GET /search" ->
            {EmptyDict}
            \cup {("query" :> q) : q \in {<<>>, <<"a">>, <<"a", "b">>}}
            \cup {("query" :> q) @@ ("type" :> ty) :
                    q \in {<<>>, <<"a">>, <<"a", "b">>},
                    ty \in {<<"track">>, <<"album">>, <<"artist">>, <<"genre">>}}
      [] route \in {"POST /playlist/<playlist_name>/play", "POST /play-track/<track_id>",
                    "DELETE /device/remove/<device_fingerprint>"} ->
            {("path" :> <<"7">>)}
      [] OTHER -> {EmptyDict}

DefaultBody(route) ==
    CASE route = "POST /volume" -> Body("level" :> JInt(50))
      [] route = "POST /seek" -> Body("position" :> JInt(30))
      [] route = "POST /repeat" -> Body("mode" :> JStr(<<"off">>))
      [] route = "POST /shuffle" -> Body("enabled" :> JBool(TRUE))
      [] route \in {"POST /device/register", "POST /device/check"} ->
            Body("device_fingerprint" :> JStr(<<"f", "p">>))
      [] OTHER -> NoBody

DefaultArgs(route) ==
    CASE route = "GET /search" -> ("query" :> <<"a", "b">>)
      [] route \in {"POST /playlist/<playlist_name>/play", "POST /play-track/<track_id>",
                    "DELETE /device/remove/<device_fingerprint>"} ->
            ("path" :> <<"7">>)
      [] OTHER -> EmptyDict

Request(route, header, body, args) ==
    [route |-> route, header |-> header, json |-> body.json, data |-> body.data,
     args |-> args]

RequestsFor(route) ==
    {Request(route, h, DefaultBody(route), DefaultArgs(route)) : h \in Headers}
    \cup {Request(route, GoodHeader, b, a) : b \in BodiesFor(route), a \in ArgsFor(route)}

GatewayViews ==
    {[track |-> 1, position |-> 0, state |-> "playing"],
     [track |-> 1, position |-> 0, state |-> "stopped"]}

EnvFor(route) ==
    CASE route \in {"POST /next", "POST /previous", "POST /play-track/<track_id>"} ->
            [o : AdapterOutcomes, o_second : {"ok", "timeout"}, p : GatewayViews,
             file : {"absent"}, known : {FALSE}]
      [] route = "GET /current-track" ->
            [o : AdapterOutcomes, o_second : {"ok"}, p : GatewayViews,
             file : {"absent"}, known : {FALSE}]
      [] route = "GET /artwork" ->
            [o : AdapterOutcomes, o_second : {"ok", "timeout"}, p : GatewayViews,
             file : {"absent", "cached", "written"}, known : {FALSE}]
      [] route \in {"POST /device/check", "DELETE /device/remove/<device_fingerprint>"} ->
            [o : {"ok"}, o_second : {"ok"}, p : QuietViews,
             file : {"absent"}, known : BOOLEAN]
      [] route \in {"GET /ping", "POST /device/register", "GET /device/list"} ->
            [o : {"ok"}, o_second : {"ok"}, p : QuietViews,
             file : {"absent"}, known : {FALSE}]
      [] OTHER ->
            [o : AdapterOutcomes, o_second : {"ok"}, p : QuietViews,
             file : {"absent"}, known : {FALSE}]

Exchanges ==
    UNION {{[route |-> r.name, req |-> req, env |-> env, resp |-> Serve(req, env)] :
                req \in RequestsFor(r.name), env \in EnvFor(r.name)} : r \in Routes}

GatewayRequest ==
    /\ exchange.route = "none"
    /\ exchange' \in Exchanges
    /\ UNCHANGED <<monitor_vars, loop_pc, sleep_left, call_left, caller_pc, join_vars,
                   saw_sleep, start_noop, polled, cycle_vars, connected, inbox, handshake, store_vars, player_vars>>

GatewayRespond ==
    /\ exchange.route # "none"
    /\ exchange' = NoExchange
    /\ UNCHANGED <<monitor_vars, loop_pc, sleep_left, call_left, caller_pc, join_vars,
                   saw_sleep, start_noop, polled, cycle_vars, connected, inbox, handshake, store_vars, player_vars>>

NextGateway ==
    \/ GatewayRequest
    \/ GatewayRespond

SpecGateway == Init /\ [][NextGateway]_vars

(***************************************************************************)
(* handle_connect (server.py:369-390).  token: request.args.get('token').   *)
(* env: the player and how the osascript calls end; emit_raises: whether    *)
(* emit('initial_state', ...) raised into the handler of lines 389-390.     *)
(***************************************************************************)
handle_connect_accepts_missing(token, env, emit_raises) ==
    IF token # NoneStr /\ token # "" /\ token # AuthToken
    THEN [accepted |-> FALSE, adapter |-> <<>>, emits |-> 0, sent |-> <<>>]
    ELSE LET track == get_current_track(env.o_track, env.o_inner, env.p)
             status == get_playback_state(env.o_status, env.p)
         IN  [accepted |-> TRUE,
              adapter |-> TrackQuery(env.o_track, env.p)
                          \o <<Script("get player state", <<>>)>>,
              emits |-> 1,
              sent |-> IF emit_raises
                       THEN <<>>
                       ELSE <<Message("initial_state",
                                      [track |-> track, status |-> status])>>]

handle_connect(token, env, emit_raises) ==
    IF token = NoneStr \/ token = "" \/ token # AuthToken
    THEN [accepted |-> FALSE, adapter |-> <<>>, emits |-> 0, sent |-> <<>>]
    ELSE LET track == get_current_track(env.o_track, env.o_inner, env.p)
             status == get_playback_state(env.o_status, env.p)
         IN  [accepted |-> TRUE,
              adapter |-> TrackQuery(env.o_track, env.p)
                          \o <<Script("get player state", <<>>)>>,
              emits |-> 1,
              sent |-> IF emit_raises
                       THEN <<>>
                       ELSE <<Message("initial_state",
                                      [track |-> track, status |-> status])>>]

Tokens == {NoneStr, "", AuthToken, "TOK", "tok2"}

RealtimeViews == {v \in PlayerViews : v.position = 0 /\ v.state = "playing"}

ConnectEnvs ==
    [p : RealtimeViews, o_track : {"ok"}, o_inner : {"ok"}, o_status : {"ok", "timeout"}]

Connect(c) ==
    /\ c \notin connected
    /\ \E token \in Tokens, env \in ConnectEnvs, emit_raises \in BOOLEAN :
        LET h == handle_connect(token, env, emit_raises)
        IN  /\ handshake' = [client |-> c, token |-> token, accepted |-> h.accepted,
                             adapter |-> h.adapter, emits |-> h.emits,
                             answered |-> env.o_status = "ok"]
            /\ connected' = IF h.accepted THEN connected \cup {c} ELSE connected
            /\ inbox' = [inbox EXCEPT ![c] = h.sent]
    /\ UNCHANGED <<monitor_vars, loop_pc, sleep_left, call_left, caller_pc, join_vars,
                   saw_sleep, start_noop, polled, cycle_vars, exchange, store_vars, player_vars>>

\* the client goes away (handle_disconnect, lines 393-396, only logs)
Disconnect(c) ==
    /\ c \in connected
    /\ connected' = connected \ {c}
    /\ inbox' = [inbox EXCEPT ![c] = <<>>]
    /\ UNCHANGED <<monitor_vars, loop_pc, sleep_left, call_left, caller_pc, join_vars,
                   saw_sleep, start_noop, polled, cycle_vars, handshake, exchange, store_vars, player_vars>>

(***************************************************************************)
(* SpecRealtime: the server with its monitor started at import, realtime    *)
(* clients connecting with any token and leaving, the player playing either *)
(* track, and every emit delivering or failing.  A poll cycle is taken      *)
(* while no connected client's inbox holds MaxInbox messages.               *)
(***************************************************************************)
\* the server accepts connections once start() has returned (server.py:417)
ServerConnect(c) ==
    /\ thread # 0
    /\ caller_pc["main"] = "idle"
    /\ Connect(c)

RealtimeAcquisitions == Acquisitions(RealtimeViews, {"ok"}, {FALSE})

RealtimePoll ==
    /\ \A c \in connected : Len(inbox[c]) < MaxInbox
    /\ \E t \in Threads : LoopCycle(t, RealtimeAcquisitions, "on_music_change", EmitOutcomes)

NextRealtime ==
    \/ ServerStart
    \/ StartTest("main")
    \/ StartSet("main")
    \/ StartSpawn("main")
    \/ \E t \in Threads : LoopTest(t)
    \/ RealtimePoll
    \/ \E t \in Threads : LoopWake(t)
    \/ Tick
    \/ \E c \in Clients : ServerConnect(c)
    \/ \E c \in Clients : Disconnect(c)

SpecRealtime == Init /\ [][NextRealtime]_vars

(***************************************************************************)
(* SpecJoin: the server with its monitor started, the player changing track *)
(* and state at any moment, and realtime clients connecting with the        *)
(* AuthToken.  handle_connect is taken in its steps: the adapter read       *)
(* (server.py:383-384) and the emit of initial_state (385-388).  The        *)
(* transport makes the client a recipient of broadcasts either before it    *)
(* calls the handler or after the handler has returned.                     *)
(***************************************************************************)
join_frame ==
    <<monitor_vars, loop_pc, sleep_left, call_left, caller_pc, join_vars, saw_sleep,
      start_noop, polled, cycle_vars, handshake, exchange, store_vars, player,
      track_read, told>>

JoinStart(c) ==
    /\ thread # 0
    /\ caller_pc["main"] = "idle"
    /\ joining[c].pc = "none"
    /\ c \notin connected
    /\ \E early \in BOOLEAN :
        /\ joining' = [joining EXCEPT ![c] = [pc |-> "read", early |-> early]]
        /\ connected' = IF early THEN connected \cup {c} ELSE connected
    /\ UNCHANGED <<inbox, join_frame>>

JoinRead(c) ==
    /\ joining[c].pc = "read"
    /\ LET h == handle_connect(AuthToken,
                               [p |-> player, o_track |-> "ok", o_inner |-> "ok",
                                o_status |-> "ok"], FALSE)
       IN  joining' = [joining EXCEPT ![c] =
                          [pc |-> "emit", early |-> joining[c].early, sent |-> h.sent]]
    /\ UNCHANGED <<connected, inbox, join_frame>>

JoinEmit(c) ==
    /\ joining[c].pc = "emit"
    /\ inbox' = [inbox EXCEPT ![c] = inbox[c] \o joining[c].sent]
    /\ joining' = [joining EXCEPT ![c] =
                      [pc |-> IF joining[c].early THEN "joined" ELSE "register"]]
    /\ UNCHANGED <<connected, join_frame>>

JoinRegister(c) ==
    /\ joining[c].pc = "register"
    /\ connected' = connected \cup {c}
    /\ joining' = [joining EXCEPT ![c] = [pc |-> "joined"]]
    /\ UNCHANGED <<inbox, join_frame>>

JoinPoll(t) ==
    /\ \A c \in connected : Len(inbox[c]) < MaxInbox
    /\ LoopReadsState(t)

NextJoin ==
    \/ ServerStart
    \/ StartTest("main")
    \/ StartSet("main")
    \/ StartSpawn("main")
    \/ \E t \in Threads : LoopTest(t)
    \/ \E t \in Threads : LoopReadsTrack(t)
    \/ \E t \in Threads : JoinPoll(t)
    \/ \E t \in Threads : LoopWake(t)
    \/ Tick
    \/ PlayerChanges
    \/ \E c \in Clients : JoinStart(c)
    \/ \E c \in Clients : JoinRead(c)
    \/ \E c \in Clients : JoinEmit(c)
    \/ \E c \in Clients : JoinRegister(c)

SpecJoin == Init /\ [][NextJoin]_vars

(***************************************************************************)
(* SpecDetect: _detect_changes applied to every pair of snapshots of a      *)
(* bounded set, as a poll cycle applies it.                                 *)
(***************************************************************************)
SnapshotInputs ==
    {EmptyDict}
    \cup [track_name : {"A", "B"},
          track_artist : {"X", "Y"},
          track_album : {"L"},
          position : 0..MaxPosition,
          duration : {3},
          state : {"playing", "paused"},
          volume : {DefaultVolume, DefaultVolume + 10}]
    \cup [track_name : {NoneStr},
          track_artist : {NoneStr},
          track_album : {NoneStr},
          position : {0},
          duration : {0},
          state : {"stopped", Lower(TimeoutText)},
          volume : {DefaultVolume}]

InitDetect ==
    /\ last_state \in SnapshotInputs
    /\ InitRest

DetectStep ==
    /\ \E current_state \in SnapshotInputs : LoopBody(current_state, "given", "on_music_change", DeliveredToAll)
    /\ UNCHANGED <<running, thread, loop_pc, sleep_left, call_left, caller_pc, join_vars,
                   saw_sleep, start_noop, polled, connected, handshake, exchange,
                   player_volume, store_vars, player, track_read, joining>>

NextDetect == DetectStep

SpecDetect == InitDetect /\ [][NextDetect]_vars

(***************************************************************************)
(* trusted_devices.py: TrustedDeviceManager.  self.devices is a dict from   *)
(* fingerprint to record.  A method is what it leaves in self.devices,      *)
(* whether it called _save_devices, and what it returned.  A file that does *)
(* not parse (empty after open(..., 'w'), or a shorter dump laid over a     *)
(* longer one) loads as {} (lines 26-27).                                   *)
(***************************************************************************)
DeviceNames == {"", "phone"}

DeviceOps == {"register", "check", "list", "remove"}

BrokenFile == [whole |-> FALSE, content |-> EmptyDict]

_load_devices(file) == IF file.whole THEN file.content ELSE EmptyDict

DeviceRecord(name, t) == [name |-> name, added_at |-> t, last_seen |-> t]

With(d, f, r) == [k \in (DOMAIN d) \cup {f} |-> IF k = f THEN r ELSE d[k]]

Without(d, f) == [k \in (DOMAIN d) \ {f} |-> d[k]]

add_device(d, f, device_name, t) ==
    [devices |-> With(d, f, DeviceRecord(IF device_name = "" THEN "Unknown Device"
                                         ELSE device_name, t)),
     save |-> TRUE, result |-> TRUE]

is_trusted_adds_unknown(d, f, t) ==
    [devices |-> With(d, f, IF f \in DOMAIN d
                            THEN [d[f] EXCEPT !.last_seen = t]
                            ELSE DeviceRecord("Unknown Device", t)),
     save |-> TRUE, result |-> f \in DOMAIN d]

is_trusted(d, f, t) ==
    IF f \in DOMAIN d
    THEN [devices |-> With(d, f, [d[f] EXCEPT !.last_seen = t]),
          save |-> TRUE, result |-> TRUE]
    ELSE [devices |-> d, save |-> FALSE, result |-> FALSE]

manager_remove_device(d, f) ==
    IF f \in DOMAIN d
    THEN [devices |-> Without(d, f), save |-> TRUE, result |-> TRUE]
    ELSE [devices |-> d, save |-> FALSE, result |-> FALSE]

get_all_devices(d) == [devices |-> d, save |-> FALSE, result |-> TRUE]

\* the call a device route makes on its TrustedDeviceManager (server.py:257-324)
DeviceCall(req, d, t) ==
    CASE req.op = "register" -> add_device(d, req.fp, req.name, t)
      [] req.op = "check" -> is_trusted(d, req.fp, t)
      [] req.op = "remove" -> manager_remove_device(d, req.fp)
      [] req.op = "list" -> get_all_devices(d)

DeviceResponse(req, r) ==
    CASE req.op = "register" ->
            [status |-> 200, success |-> TRUE, is_trusted |-> FALSE, count |-> 0]
      [] req.op = "check" ->
            [status |-> 200, success |-> FALSE, is_trusted |-> r.result, count |-> 0]
      [] req.op = "remove" ->
            [status |-> IF r.result THEN 200 ELSE 404, success |-> r.result,
             is_trusted |-> FALSE, count |-> 0]
      [] req.op = "list" ->
            [status |-> 200, success |-> FALSE, is_trusted |-> FALSE,
             count |-> Cardinality(DOMAIN r.devices)]

outside_store ==
    <<monitor_vars, loop_pc, sleep_left, call_left, caller_pc, join_vars, saw_sleep,
      start_noop, polled, cycle_vars, connected, inbox, handshake, exchange,
      player_vars>>

Opposes(a, b) == {a, b} = {"register", "remove"}

\* an authorized, well-formed device request reaches its route
DeviceRequest(h, Names) ==
    /\ device_pc[h] = "idle"
    /\ \E op \in DeviceOps, f \in Fingerprints, name \in Names \cup {""} :
        /\ op # "register" => name = ""
        /\ op = "list" => f = 1
        /\ device_req' =
             [g \in RequestHandlers |->
                IF g = h
                THEN [op |-> op, fp |-> f, name |-> name, was_kept |-> kept[f],
                      clean |-> \A k \in RequestHandlers \ {h} :
                                    ~(/\ device_req[k].op # "none"
                                      /\ device_req[k].fp = f
                                      /\ Opposes(device_req[k].op, op))]
                ELSE IF /\ device_req[g].op # "none"
                        /\ device_req[g].fp = f
                        /\ Opposes(device_req[g].op, op)
                THEN [device_req[g] EXCEPT !.clean = FALSE]
                ELSE device_req[g]]
        /\ kept' = IF op = "remove" THEN [kept EXCEPT ![f] = FALSE] ELSE kept
        /\ removed' = IF op = "register" THEN [removed EXCEPT ![f] = FALSE] ELSE removed
    /\ device_pc' = [device_pc EXCEPT ![h] = "construct"]
    /\ device_resp' = [device_resp EXCEPT ![h] = NoResponse]
    /\ UNCHANGED <<devices_file, devices, now, outside_store>>

\* TrustedDeviceManager(config.config_dir): __init__ loads the file
DeviceConstruct(h) ==
    /\ device_pc[h] = "construct"
    /\ devices' = [devices EXCEPT ![h] = _load_devices(devices_file)]
    /\ device_pc' = [device_pc EXCEPT ![h] = "call"]
    /\ UNCHANGED <<devices_file, device_req, device_resp, now, kept, removed, outside_store>>

\* the method up to its call of _save_devices, or to its return
DeviceMethod(h) ==
    /\ device_pc[h] = "call"
    /\ LET r == DeviceCall(device_req[h], devices[h], now)
       IN  /\ devices' = [devices EXCEPT ![h] = r.devices]
           /\ device_resp' = [device_resp EXCEPT ![h] = DeviceResponse(device_req[h], r)]
           /\ device_pc' = [device_pc EXCEPT ![h] = IF r.save THEN "open" ELSE "return"]
    /\ UNCHANGED <<devices_file, device_req, now, kept, removed, outside_store>>

\* _save_devices, line 33: open(..., 'w') empties the file
SaveOpen(h) ==
    /\ device_pc[h] = "open"
    /\ devices_file' = BrokenFile
    /\ device_pc' = [device_pc EXCEPT ![h] = "dump"]
    /\ UNCHANGED <<devices, device_req, device_resp, now, kept, removed, outside_store>>

\* _save_devices, line 34: the dump is written from offset 0 when the file is
\* closed; over a longer dump that another handler wrote meanwhile it leaves
\* that dump's tail behind
SaveDump(h) ==
    /\ device_pc[h] = "dump"
    /\ devices_file' =
         IF /\ devices_file.whole
            /\ Cardinality(DOMAIN devices[h]) < Cardinality(DOMAIN devices_file.content)
         THEN BrokenFile
         ELSE WholeFile(devices[h])
    /\ device_pc' = [device_pc EXCEPT ![h] = "return"]
    /\ UNCHANGED <<devices, device_req, device_resp, now, kept, removed, outside_store>>

\* the route returns its response
DeviceReturn(h) ==
    /\ device_pc[h] = "return"
    /\ LET req == device_req[h]
       IN  /\ kept' = IF req.op = "register" /\ req.clean
                      THEN [kept EXCEPT ![req.fp] = TRUE]
                      ELSE kept
           /\ removed' = IF req.op = "remove" /\ device_resp[h].status = 200 /\ req.clean
                         THEN [removed EXCEPT ![req.fp] = TRUE]
                         ELSE removed
    /\ device_pc' = [device_pc EXCEPT ![h] = "idle"]
    /\ device_req' = [device_req EXCEPT ![h] = NoRequest]
    /\ devices' = [devices EXCEPT ![h] = EmptyDict]
    /\ UNCHANGED <<devices_file, device_resp, now, outside_store>>

ClockTick ==
    /\ now < MaxClock
    /\ now' = now + 1
    /\ UNCHANGED <<devices_file, devices, device_pc, device_req, device_resp,
                   kept, removed, outside_store>>

(***************************************************************************)
(* SpecDevices: device requests served one at a time.                       *)
(***************************************************************************)
NextDevices ==
    \/ DeviceRequest("h1", DeviceNames)
    \/ DeviceConstruct("h1")
    \/ DeviceMethod("h1")
    \/ SaveOpen("h1")
    \/ SaveDump("h1")
    \/ DeviceReturn("h1")
    \/ ClockTick

SpecDevices == Init /\ [][NextDevices]_vars

(***************************************************************************)
(* SpecDeviceRace: device requests served by two threads of the threading   *)
(* server (server.py:19), each with its own TrustedDeviceManager, within    *)
(* one reading of the clock and with no device names.                       *)
(***************************************************************************)
NextDeviceRace ==
    \/ \E h \in RequestHandlers : DeviceRequest(h, {""})
    \/ \E h \in RequestHandlers : DeviceConstruct(h)
    \/ \E h \in RequestHandlers : DeviceMethod(h)
    \/ \E h \in RequestHandlers : SaveOpen(h)
    \/ \E h \in RequestHandlers : SaveDump(h)
    \/ \E h \in RequestHandlers : DeviceReturn(h)

SpecDeviceRace == Init /\ [][NextDeviceRace]_vars

(***************************************************************************)
(* Properties                                                               *)
(***************************************************************************)
Given == acq = "given"

BothPresent == Given /\ Truthy(prev_state) /\ Truthy(last_state)

OnlyDiffer(a, b, k) ==
    /\ Truthy(a) /\ Truthy(b)
    /\ a[k] # b[k]
    /\ \A f \in (DOMAIN a) \ {k} : a[f] = b[f]

IdentityDiffers ==
    \/ prev_state.track_name # last_state.track_name
    \/ prev_state.track_artist # last_state.track_artist

\* C1: with no previous snapshot, the detector returns a full_update event whose
\* payload is exactly the fields of the current snapshot, whatever that snapshot is.
C1_FullUpdateWithoutPrevious ==
    (Given /\ prev_state = EmptyDict) =>
        /\ DOMAIN changes = (DOMAIN last_state) \cup {"type"}
        /\ changes["type"] = "full_update"
        /\ \A k \in DOMAIN last_state : changes[k] = last_state[k]

C1_Witness ==
    /\ Given /\ prev_state = EmptyDict /\ Truthy(last_state)
    /\ EventType(changes) = "full_update"
    /\ changes.track_name = "B" /\ changes.volume = DefaultVolume + 10

\* C2: when the previous snapshot is present and the current one differs from it
\* only in position, the detector returns no event and the cycle does not invoke
\* the change callback.
C2_PositionOnlyIsSilent ==
    (Given /\ OnlyDiffer(prev_state, last_state, "position")) =>
        /\ changes = EmptyDict
        /\ dispatched = EmptyDict

C2_Witness ==
    /\ Given /\ OnlyDiffer(prev_state, last_state, "position")
    /\ last_state.state = "playing"
    /\ dispatched = EmptyDict

\* C3: when both snapshots are present and both the (track_name, track_artist)
\* pair and the playback state differ, the event is track_changed, never
\* playback_state_changed.
C3_TrackOutranksState ==
    (BothPresent /\ IdentityDiffers /\ prev_state.state # last_state.state) =>
        /\ EventType(changes) = "track_changed"
        /\ EventType(dispatched) = "track_changed"

C3_Witness ==
    /\ BothPresent /\ IdentityDiffers /\ prev_state.state # last_state.state
    /\ prev_state.volume # last_state.volume
    /\ EventType(dispatched) = "track_changed"

\* C4: when both snapshots are present, the track identity is the same and the
\* playback state differs, the one event returned is playback_state_changed and
\* carries the current state, whether or not the volume differs too; in every
\* cycle the single type reported follows the precedence track > state > volume.
C4_StateChangeAndPrecedence ==
    /\ (BothPresent /\ ~IdentityDiffers /\ prev_state.state # last_state.state) =>
            /\ EventType(changes) = "playback_state_changed"
            /\ changes.state = last_state.state
            /\ dispatched = changes
    /\ BothPresent =>
            EventType(changes) =
                IF IdentityDiffers THEN "track_changed"
                ELSE IF prev_state.state # last_state.state THEN "playback_state_changed"
                ELSE IF prev_state.volume # last_state.volume THEN "volume_changed"
                ELSE ""

C4_Witness ==
    /\ BothPresent /\ ~IdentityDiffers
    /\ prev_state.state = "playing" /\ last_state.state = "paused"
    /\ prev_state.volume # last_state.volume
    /\ EventType(dispatched) = "playback_state_changed"

\* C5: when both snapshots are present and differ only in volume, the event is
\* volume_changed and its volume is the current snapshot's volume.
C5_VolumeOnly ==
    (Given /\ OnlyDiffer(prev_state, last_state, "volume")) =>
        /\ EventType(changes) = "volume_changed"
        /\ changes.volume = last_state.volume
        /\ dispatched = changes

C5_Witness ==
    /\ Given /\ OnlyDiffer(prev_state, last_state, "volume")
    /\ EventType(dispatched) = "volume_changed"
    /\ dispatched.volume = DefaultVolume + 10

\* C6: a poll cycle that acquires a snapshot equal to the one retained as
\* previous, the empty snapshot of a failed acquisition included, dispatches
\* nothing.
C6_DetectIsIdempotent ==
    (acq # "none" /\ prev_state = last_state) =>
        /\ changes = EmptyDict
        /\ dispatched = EmptyDict

\* C7: after stop() has returned and start() has been called again, the first
\* poll cycle of the restarted loop emits full_update, whatever snapshot was
\* retained before the stop.
C7_RestartEmitsFullUpdate ==
    [][\A t \in Threads :
         (/\ t > 1
          /\ \A u \in 1..(t - 1) : loop_pc[u] = "done"
          /\ loop_pc[t] = "cycle" /\ loop_pc'[t] = "sleep"
          /\ ~polled[t])
         => EventType(dispatched') = "full_update"]_vars

\* C8: a start() that finds the monitor running returns without changing
\* running, thread, last_state or the set of loop threads; a start() that finds
\* it stopped sets running and spawns exactly one loop thread.
C8_StartIsIdempotent ==
    [][\A c \in Callers :
         /\ (caller_pc[c] = "start_test" /\ caller_pc'[c] # "start_test" /\ running)
                => /\ caller_pc'[c] = "idle"
                   /\ UNCHANGED <<running, thread, last_state, loop_pc>>
         /\ (caller_pc[c] = "start_test" /\ caller_pc'[c] # "start_test" /\ ~running)
                => caller_pc'[c] = "start_set"
         /\ (caller_pc[c] = "start_set" /\ caller_pc'[c] # "start_set")
                => running'
         /\ (caller_pc[c] = "start_spawn" /\ caller_pc'[c] # "start_spawn")
                => /\ Cardinality({t \in Threads : loop_pc'[t] # "unborn"})
                        = Cardinality(Spawned) + 1
                   /\ thread' \notin Spawned
                   /\ loop_pc'[thread'] = "test"
                   /\ \A u \in Spawned : loop_pc'[u] = loop_pc[u]]_vars

C8_Witness ==
    \E c \in Callers :
        /\ start_noop[c] /\ caller_pc[c] = "idle"
        /\ running /\ thread = 1 /\ Cardinality(Spawned) = 1

\* C9: once stop() has cleared the flag and no start() sets it again, a loop
\* that reaches its test begins no further poll cycle, and every loop thread
\* exits; a stop() that found the loop in its sleep returns only after that
\* loop has exited.
C9_StopEndsTheLoop ==
    /\ [][\A t \in Threads :
            (loop_pc[t] = "test" /\ ~running) => loop_pc'[t] \in {"test", "done"}]_vars
    /\ [][\A c \in Callers :
            (caller_pc[c] = "stop_join" /\ caller_pc'[c] = "idle" /\ saw_sleep[c])
                => loop_pc[join_target[c]] = "done"]_vars
    /\ (<>[](~running)) => <>[](\A t \in Threads : loop_pc[t] \in {"unborn", "done"})

C9_Witness ==
    \E c \in Callers :
        /\ caller_pc[c] = "stop_join" /\ saw_sleep[c]
        /\ loop_pc[join_target[c]] = "done"
        /\ polled[join_target[c]]

\* C10: a poll cycle whose track query or player-state query timed out or
\* failed dispatches no event.
C10_NoEventOnAdapterFailure ==
    acq = "failed" => dispatched = EmptyDict

CycleCompletes(t) == loop_pc[t] \in {"cycle", "in_call"} /\ loop_pc'[t] \notin {"cycle", "in_call"}

Authorized(header) == header.value = "text" /\ header.parts = <<"Bearer", AuthToken>>

Connects(c) == c \notin connected /\ c \in connected'

\* C11: a client that connects with the valid token after the poller has
\* completed cycles is sent one initial_state, whose track name, artist and album
\* and whose status are those of the snapshot the poller retains, and nothing
\* that was dispatched before it connected (stated for a connect whose adapter
\* calls answer and whose emit is delivered).
C11_InitialStateIsPollerSnapshot ==
    [][\A c \in Clients :
         (/\ Connects(c)
          /\ \E t \in Threads : polled[t]
          /\ handshake'.answered
          /\ inbox'[c] # <<>>)
         => /\ Len(inbox'[c]) = 1
            /\ inbox'[c][1].event = "initial_state"
            /\ inbox'[c][1].data.track.name = dict_get(last_state, "track_name", NoneStr)
            /\ inbox'[c][1].data.track.artist = dict_get(last_state, "track_artist", NoneStr)
            /\ inbox'[c][1].data.track.album = dict_get(last_state, "track_album", NoneStr)
            /\ inbox'[c][1].data.status = dict_get(last_state, "state", NoneStr)]_vars

C13_UnauthorizedIsRefused ==
    (/\ exchange.route \notin {"none", "GET /ping", "POST /device/check"}
     /\ ~Authorized(exchange.req.header))
    => /\ exchange.resp.status = 401
       /\ exchange.resp.error # ""
       /\ ~exchange.resp.success
       /\ exchange.resp.adapter = <<>>
       /\ exchange.resp.store = <<>>

C13_Witness ==
    /\ exchange.route = "DELETE /device/remove/<device_fingerprint>"
    /\ exchange.req.header = Header(<<"Basic", AuthToken>>)
    /\ exchange.env.known
    /\ exchange.resp.status = 401

CommandRoutes ==
    {"POST /play", "POST /pause", "POST /next", "POST /previous", "POST /volume",
     "POST /seek"}

\* C14: when the script that an authenticated command runs times out or fails,
\* the response is a failure, never a success.
C14_AdapterFailureIsReported ==
    (/\ exchange.route \in CommandRoutes
     /\ Authorized(exchange.req.header)
     /\ exchange.resp.adapter # <<>>
     /\ exchange.env.o # "ok")
    => ~(exchange.resp.status = 200 /\ exchange.resp.success)

\* C15: for every integer level posted to /volume, the one script run sets the
\* sound volume to max(0, min(100, level)), a value in 0..100.
C15_VolumeIsClamped ==
    (/\ exchange.route = "POST /volume"
     /\ Authorized(exchange.req.header)
     /\ exchange.req.json
     /\ "level" \in DOMAIN exchange.req.data
     /\ exchange.req.data["level"].t = "int")
    => LET level == exchange.req.data["level"].n
           sent == exchange.resp.adapter
       IN  /\ Len(sent) = 1
           /\ sent[1].cmd = "set sound volume to"
           /\ IsIntText(sent[1].arg)
           /\ IntValue(sent[1].arg) \in 0..100
           /\ IntValue(sent[1].arg) =
                IF level > 100 THEN 100 ELSE IF level < 0 THEN 0 ELSE level

C15_Witness ==
    /\ exchange.route = "POST /volume"
    /\ exchange.req.data = ("level" :> JInt(150))
    /\ exchange.resp.adapter = <<Script("set sound volume to", <<"1", "0", "0">>)>>

\* C16: when the emit of on_music_change raises, no exception reaches the poll
\* cycle: the cycle stores the snapshot it acquired as last_state and ends in
\* the loop's sleep, from which the next cycle follows.
C16_BroadcastFailureIsAbsorbed ==
    [][\A t \in Threads :
         CycleCompletes(t) =>
            /\ cb' # "raised"
            /\ last_state' = acquired'
            /\ loop_pc'[t] = "sleep"]_vars

C16_Witness ==
    /\ cb = "absorbed"
    /\ connected = Clients
    /\ Truthy(prev_state) /\ last_state = acquired /\ last_state # prev_state
    /\ \E t \in Threads : loop_pc[t] = "cycle"

\* C17: the change callback has a single producer: whenever a loop thread
\* completes a poll cycle, after any sequence of start(), stop() and poll
\* cycles made by one caller, no other loop thread is alive.
C17_SingleProducer ==
    [][\A t \in Threads :
         CycleCompletes(t) =>
             \A u \in Threads \ {t} : loop_pc[u] \in {"unborn", "done"}]_vars

\* C18: at the end of every poll cycle that acquired a snapshot, last_state is
\* that snapshot, whether or not an event fired and also when the change
\* callback raised.
C18_StoreIsUnconditional ==
    acq # "none" => last_state = acquired

\* C19: a poll cycle in which something raised ends, like any other, in the
\* loop's sleep, from which the loop goes to its test and, with running true,
\* into the next cycle; a loop thread exits only from its test and only with
\* running false.
C19_CycleFailureKeepsLoop ==
    [][\A t \in Threads :
         /\ CycleCompletes(t)
                => loop_pc'[t] = "sleep" /\ sleep_left'[t] = SleepTicks
         /\ (loop_pc[t] = "sleep" /\ loop_pc'[t] # "sleep") => loop_pc'[t] = "test"
         /\ (loop_pc[t] = "test" /\ loop_pc'[t] # "test" /\ running)
                => loop_pc'[t] = "cycle"
         /\ (loop_pc[t] # "done" /\ loop_pc'[t] = "done")
                => loop_pc[t] = "test" /\ ~running]_vars

C19_Witness ==
    \E t \in Threads :
        /\ cb = "raised" /\ running
        /\ loop_pc[t] = "sleep" /\ polled[t]
        /\ Truthy(prev_state)

\* C20: the snapshot of a poll cycle whose adapter calls failed or timed out
\* has no track name, artist or album and has state stopped or error; the state
\* of every snapshot the poller acquires is playing, paused, stopped or error.
C20_SnapshotStates ==
    /\ acq \in {"failed", "raised"} =>
            /\ dict_get(acquired, "track_name", NoneStr) = NoneStr
            /\ dict_get(acquired, "track_artist", NoneStr) = NoneStr
            /\ dict_get(acquired, "track_album", NoneStr) = NoneStr
            /\ dict_get(acquired, "state", NoneStr) \in {"stopped", "error"}
    /\ acq # "none" =>
            dict_get(acquired, "state", NoneStr) \in {"playing", "paused", "stopped", "error"}

\* C21: a poll cycle in which the track query or the player-state query failed
\* yields the empty snapshot or the snapshot of no track and no playback; it
\* never joins fields of the query that answered to fields of the one that failed.
C21_SnapshotAllOrNothing ==
    acq = "failed" =>
        \/ acquired = EmptyDict
        \/ /\ acquired.track_name = NoneStr
           /\ acquired.track_artist = NoneStr
           /\ acquired.track_album = NoneStr
           /\ acquired.state = "stopped"

\* C22: when both snapshots are present and their (track_name, track_artist)
\* pairs differ, the event is track_changed, it carries the current snapshot's
\* name, artist, album, position and duration, and nothing else: no state and
\* no volume.
C22_TrackChangedPayload ==
    (BothPresent /\ IdentityDiffers) =>
        /\ EventType(dispatched) = "track_changed"
        /\ DOMAIN dispatched = {"type", "track"}
        /\ DOMAIN dispatched.track = {"name", "artist", "album", "position", "duration"}
        /\ dispatched.track.name = last_state.track_name
        /\ dispatched.track.artist = last_state.track_artist
        /\ dispatched.track.album = last_state.track_album
        /\ dispatched.track.position = last_state.position
        /\ dispatched.track.duration = last_state.duration

ValidatedRoutes ==
    {"POST /volume", "POST /seek", "POST /repeat", "POST /shuffle", "GET /search"}

NotANumber(v) == v.t = "null" \/ (v.t = "str" /\ ~IsIntText(v.s))

Malformed(req) ==
    CASE req.route = "POST /volume" ->
            \/ ~req.json
            \/ "level" \notin DOMAIN req.data
            \/ NotANumber(req.data["level"])
      [] req.route = "POST /seek" ->
            \/ ~req.json
            \/ "position" \notin DOMAIN req.data
            \/ NotANumber(req.data["position"])
      [] req.route = "POST /repeat" ->
            \/ ~req.json
            \/ "mode" \notin DOMAIN req.data
            \/ req.data["mode"] \notin {JStr(<<"off">>), JStr(<<"one">>), JStr(<<"all">>)}
      [] req.route = "POST /shuffle" ->
            \/ ~req.json
            \/ "enabled" \notin DOMAIN req.data
            \/ req.data["enabled"].t # "bool"
      [] req.route = "GET /search" ->
            \/ dict_get(req.args, "query", <<>>) = <<>>
            \/ dict_get(req.args, "type", <<"track">>)
                    \notin {<<"track">>, <<"album">>, <<"artist">>}
      [] OTHER -> FALSE

\* C23: an authorized request to POST /volume, /seek, /repeat or /shuffle or to
\* GET /search whose body or parameters are malformed (a missing field, a level
\* or position that is no number, a mode other than off, one, all, an enabled
\* that is no boolean, an empty query, a type other than track, album, artist)
\* is answered with an error status and runs no script.
C23_ValidationShortCircuits ==
    (/\ exchange.route \in ValidatedRoutes
     /\ Authorized(exchange.req.header)
     /\ Malformed(exchange.req))
    => /\ exchange.resp.status >= 400
       /\ exchange.resp.adapter = <<>>

DeviceActs(h) == device_pc[h] = "call" /\ device_pc'[h] # "call"

Serving(h, ops) == device_req[h].op \in ops

\* C24: with device requests served one at a time, a fingerprint is in the
\* store, and a trust check of it says trusted, exactly from its registration
\* until its removal; the removal of a fingerprint that is not registered is
\* answered 404 with remove_device returning False, and it and the trust check
\* of such a fingerprint leave self.devices and the file as they were.
C24_DeviceLifecycle ==
    /\ []((\A h \in RequestHandlers : device_pc[h] = "idle") =>
                \A f \in Fingerprints :
                    (f \in DOMAIN _load_devices(devices_file)) <=> kept[f])
    /\ [][\A h \in RequestHandlers :
            /\ (DeviceActs(h) /\ Serving(h, {"check"}))
                    => device_resp'[h].is_trusted = device_req[h].was_kept
            /\ (DeviceActs(h) /\ Serving(h, {"remove"}))
                    => /\ device_resp'[h].success = device_req[h].was_kept
                       /\ device_resp'[h].status =
                            IF device_req[h].was_kept THEN 200 ELSE 404
            /\ (DeviceActs(h) /\ Serving(h, {"remove", "check"}) /\ ~device_req[h].was_kept)
                    => /\ devices'[h] = devices[h]
                       /\ device_pc'[h] = "return"
            /\ (Serving(h, {"remove", "check"}) /\ ~device_req[h].was_kept)
                    => devices_file' = devices_file]_vars

C24_Witness ==
    /\ device_pc["h1"] = "return"
    /\ device_req["h1"].op = "remove" /\ device_req["h1"].fp = 2
    /\ device_resp["h1"].status = 404
    /\ kept[1] /\ DOMAIN devices["h1"] = {1}
    /\ devices_file = WholeFile(devices["h1"])

\* C27: with device requests interleaved, a fingerprint whose removal has
\* returned success stays out of the persisted store until a registration of it
\* arrives, and a fingerprint whose registration has returned stays in the
\* store until a removal of it arrives (a registration and a removal of the
\* same fingerprint that overlap promise nothing).
C27_DeviceStoreUnderRace ==
    \A f \in Fingerprints :
        /\ removed[f] => f \notin DOMAIN _load_devices(devices_file)
        /\ (kept[f] /\ devices_file.whole) => f \in DOMAIN devices_file.content

\* C25: every snapshot the poller acquires has the volume DefaultVolume,
\* whatever the player's sound volume is, and no poll cycle detects or
\* dispatches an event of type volume_changed.
C25_NoVolumeEventFromPoller ==
    /\ (acq # "none" /\ Truthy(acquired)) => acquired.volume = DefaultVolume
    /\ EventType(changes) # "volume_changed"
    /\ EventType(dispatched) # "volume_changed"

C25_Witness ==
    /\ player_volume = 100
    /\ Truthy(prev_state) /\ acquired = prev_state
    /\ acquired.volume = DefaultVolume /\ acquired.state = "playing"
    /\ dispatched = EmptyDict
    /\ \E t \in Threads : loop_pc[t] = "sleep" /\ polled[t]

\* C26: under every interleaving of start() and stop() calls made by two
\* threads, at most one loop thread is inside a poll cycle at any time.
C26_OneLoopThread ==
    Cardinality({t \in Threads : loop_pc[t] \in {"cycle", "in_call"}}) <= 1

\* C30: the level that a successful POST /volume reports in its response is the
\* level of the script it ran.
C30_ReportedLevelIsForwarded ==
    (/\ exchange.route = "POST /volume"
     /\ exchange.resp.status = 200
     /\ exchange.resp.success)
    => /\ Len(exchange.resp.adapter) = 1
       /\ IntValue(exchange.resp.adapter[1].arg) = exchange.resp.level

Identity(v) ==
    LET snapshot == _get_current_state("ok", "ok", "ok", v, FALSE)
    IN  [name |-> snapshot.track_name, artist |-> snapshot.track_artist,
         state |-> snapshot.state]

\* C28: with the monitor running, the adapter answering and the loop scheduled
\* fairly, once the player stays on a track and in a state, the events that the
\* poller has passed to the change callback come to carry that track's name and
\* artist and that state, and go on doing so.
C28_ChangeIsPropagated ==
    \A v \in PropagationViews :
        (<>[](player = v)) => <>[](told = Identity(v))

C28_Witness ==
    /\ player = [track |-> 2, position |-> 0, state |-> "paused"]
    /\ track_read = player
    /\ Truthy(prev_state)
    /\ prev_state.track_name = "A" /\ prev_state.state = "playing"
    /\ EventType(dispatched) = "track_changed"
    /\ told = Identity(player)
    /\ \E t \in Threads : loop_pc[t] = "sleep"

\* what a client holds after applying message m
Applied(before, m) ==
    IF m.event = "initial_state"
    THEN [name |-> m.data.track.name, artist |-> m.data.track.artist,
          state |-> m.data.status]
    ELSE Tell(before, m.data)

RECURSIVE ClientView(_)
ClientView(msgs) ==
    IF msgs = <<>>
    THEN NothingTold
    ELSE Applied(ClientView(SubSeq(msgs, 1, Len(msgs) - 1)), msgs[Len(msgs)])

\* the poller has dispatched all there is to dispatch about the player as it is
PollerCaughtUp ==
    /\ Truthy(last_state)
    /\ last_state = _get_current_state("ok", "ok", "ok", player, FALSE)
    /\ \A t \in Threads : loop_pc[t] \in {"unborn", "test", "sleep"}

\* C29: once a client's connect with the AuthToken is complete and the poller
\* has caught up with the player, the initial_state and the music_update
\* messages the client has received, applied in order, give the player's track
\* and state.
C29_SubscriberIsNotStale ==
    \A c \in Clients :
        (joining[c].pc = "joined" /\ PollerCaughtUp)
            => ClientView(inbox[c]) = Identity(player)

====
